---- MODULE Spec2Model ----
(***************************************************************************)
(* ObjToImdl: conversion of a wavefront scene (.obj + .mtl) into the       *)
(* chunked .imdl container.  The module models wmain's pipeline            *)
(*   AnalyzeObj -> GetMaterialPath -> AnalyzeMtl -> CreateBufferData       *)
(*   -> GenerateTangents -> OutputImdl                                     *)
(* one action per input line of the two parsers and one action per later   *)
(* stage.                                                                  *)
(***************************************************************************)
EXTENDS Integers, Sequences, FiniteSets, TLC

\* ------------------------------------------------------------------------
\* Bounds of the model
\* ------------------------------------------------------------------------
MaxPositions == 2
MaxNormals == 1
MaxTexcoords == 1
MaxMeshes == 2
MaxSubMeshes == 2
MaxFaces == 2
MaxMaterials == 2
MaxChunks == 3

\* size_t arithmetic wraps around.  TLC's integers are 32 bits wide, so the
\* 2^64 of the x64 target is scaled down to 2^30: what the model uses of it
\* is that a wrapped difference is larger than every length.
SizeMod == 2 ^ 30

\* enum class TextureType
BaseColor == 0
Normal == 1

\* FileHeader and enum ChunkType: the four-character codes 'IMDL', 'TXTR',
\* 'MTRL', 'MESH', 'VERT', 'INDX' as the integers the compiler makes of them
MAGIC_IMDL == 1229800524
CHUNK_TEXTURE == 1415074898
CHUNK_MATERIAL == 1297371724
CHUNK_MESH == 1296388936
CHUNK_VERTEX == 1447383636
CHUNK_INDEX == 1229866072
FILE_VERSION == 1
CHUNK_COUNT == 5

\* ------------------------------------------------------------------------
\* Input alphabets
\* ------------------------------------------------------------------------
NrmVals == {<<0, 2, 0>>}
TexVals == {<<1, 0>>}
ObjNames == {"A"}
MtlNames == {"a", "b"}
MtlLibs == {"m.mtl"}
OptionFlags == {"-bm"}
\* what follows "map_Kd" or "map_Bump" on a line, token by token
MapArgs == {<<"t.png">>, <<"-bm", "1", "t.png">>, <<"-bm">>, <<>>}
\* the same for the runs on a scene of no faces: two texture files
MtlMapArgs == {<<"t.png">>, <<"-bm", "1", "u.png">>, <<"-bm">>}

\* The material lines of the runs on attribute lines
AttrMtlNames == {"a"}
AttrMapArgs == {<<"t.png">>}
ColorVals == {<<2, 3, 4>>}
NsVals == {1000}

\* The chunks handed to WriteChunk: types and payloads
ChunkTypes == {CHUNK_TEXTURE, CHUNK_INDEX}
ChunkPayloads == {<<>>, <<7>>, <<1, 2>>}

\* The scenes of the runs of GenerateTangents: four positions in the plane
\* z = 0, three texcoords (as stored, after the flip of v), two normals, and
\* the corners (v, vt, vn) the faces are made of
TanPositions == <<<<0, 0, 0>>, <<1, 0, 0>>, <<0, 1, 0>>, <<1, 1, 0>>>>
TanTexcoords == <<<<0, 0>>, <<1, 0>>, <<0, 1>>>>
TanNormals == <<<<0, 0, 2>>, <<0, 3, 0>>>>
TanCorners ==
  { [v |-> 0, vt |-> 0, vn |-> 0], [v |-> 1, vt |-> 1, vn |-> 0],
    [v |-> 2, vt |-> 2, vn |-> 0], [v |-> 3, vt |-> 1, vn |-> 0],
    [v |-> 1, vt |-> 1, vn |-> 1] }
TanFaces == {<<c0, c1, c2>> : c0 \in TanCorners, c1 \in TanCorners,
                             c2 \in TanCorners}
TanFaceLists == {<<f>> : f \in TanFaces}
                  \cup {<<f, g>> : f \in TanFaces, g \in TanFaces}

\* A corner token "v/vt/vn" of a face line: every component is the sequence
\* of the literals written for it, <<>> when the component is left empty.
Tok(v, vt, vn) == [v |-> v, vt |-> vt, vn |-> vn]
P1 == Tok(1, <<>>, <<>>)
P2 == Tok(2, <<>>, <<>>)
N1 == Tok(-1, <<>>, <<>>)
N2 == Tok(-2, <<>>, <<>>)
F1 == Tok(1, <<1>>, <<1>>)
F2 == Tok(2, <<1>>, <<1>>)
G1 == Tok(1, <<1>>, <<>>)
H1 == Tok(-1, <<-1>>, <<-1>>)
Z0 == Tok(0, <<>>, <<>>)
Zt == Tok(1, <<0>>, <<>>)
Zn == Tok(1, <<>>, <<0>>)
OorP == Tok(3, <<>>, <<>>)
OorM == Tok(-3, <<>>, <<>>)
OorN == Tok(1, <<>>, <<-2>>)

\* The face lines the parser is fed with
FaceLines ==
  { <<>>, <<P1>>, <<P1, P2>>,
    <<P1, P2, N1>>, <<F1, F2, H1>>, <<N2, G1, F1>>,
    <<F1, F2, G1, H1>>, <<P1, F1, P2, N2, N1>>,
    <<P1, P2, Z0>>, <<Zt, P1, P2>>, <<P1, Zn, P2>>,
    <<P1, P2, OorP>>, <<OorM, P1, P2>>, <<F1, F2, OorN>> }

\* The face lines fed to the parser when the whole conversion runs
PipeFaceLines == { <<P1>>, <<P1, P2, N1>>, <<P1, P2, Z0>> }

\* The face lines of the runs up to CreateBufferData
BufFaceLines == { <<F1, F2, H1>>, <<F1, F2, G1, H1>> }

\* The alphabets of the runs of AnalyzeObj alone
ObjPosVals == {<<1, 0, 0>>}
ObjMtlNames == {"a"}

\* ------------------------------------------------------------------------
\* State
\* ------------------------------------------------------------------------
VARIABLES
  pc,           \* position of wmain: the stage that runs next, or how it ended
  err,          \* the message of the failure that ended the run, "" if none
  object,       \* struct Object: mtllib, positions, normals, texcoords, meshes
  pFace,        \* AnalyzeObj: the face list that face lines append to
  object_name,  \* AnalyzeObj: name of the last object declaration
  materials,         \* wmain: std::vector<MaterialInfo>
  materialIndexMap,  \* wmain: material name -> index
  textures,          \* wmain: std::vector<TextureEntry>
  textureIndexMap,   \* AnalyzeMtl: (path, type) -> index
  m_index,           \* AnalyzeMtl: index of the next material
  meshInfo,          \* wmain: std::vector<MeshInfo>
  vertexBuffer,      \* wmain: the consolidated vertices
  indexBuffer,       \* wmain: the index buffer
  output,            \* the output file: <<>> while it does not exist
  ifs,               \* caller of ReadChunk: the input stream
  header,            \* caller of ReadChunk: the bytes of its ChunkHeader
  buffer,            \* caller of ReadChunk: its std::vector<uint8_t>
  ret,               \* "true" or "false" of the last ReadChunk, else "none"
  written            \* caller of WriteChunk: the chunks it wrote

objVars == <<object, pFace, object_name>>
mtlVars == <<materials, materialIndexMap, textures, textureIndexMap, m_index>>
bufVars == <<meshInfo, vertexBuffer, indexBuffer>>
chunkVars == <<ifs, header, buffer, ret, written>>
vars == <<pc, err, objVars, mtlVars, bufVars, output, chunkVars>>

\* pFace values: the null pointer, a wild pointer, or the face list of
\* sub mesh s of mesh m
NullPtr == [kind |-> "null", m |-> 0, s |-> 0]
WildPtr == [kind |-> "wild", m |-> 0, s |-> 0]
FacePtr(m, s) == [kind |-> "faces", m |-> m, s |-> s]

\* FaceIndex{-1,-1,-1}
FaceIndex(v, vt, vn) == [v |-> v, vt |-> vt, vn |-> vn]

\* A std::ifstream: the bytes of the file, the read position, and failbit
Stream(bytes) == [bytes |-> bytes, pos |-> 0, fail |-> FALSE]

\* No stream opened, a ChunkHeader{} and an empty buffer
ChunkIdle ==
  /\ ifs = Stream(<<>>)
  /\ header = <<0, 0, 0, 0, 0, 0, 0, 0>>
  /\ buffer = <<>>
  /\ ret = "none"
  /\ written = <<>>

Failed == pc \in {"return1", "returnM1", "terminate", "crash"}

\* fixIndex without the throw: a literal 0 resolves like a positive literal
fixIndex_AcceptZero(raw, size) ==
  IF raw >= 0 THEN [throws |-> FALSE, val |-> raw - 1]
  ELSE [throws |-> FALSE, val |-> size + raw]

\* fixIndex with a negative literal counted from the last element, not from
\* one past it
fixIndex_OffByOne(raw, size) ==
  IF raw > 0 THEN [throws |-> FALSE, val |-> raw - 1]
  ELSE IF raw < 0 THEN [throws |-> FALSE, val |-> size - 1 + raw]
  ELSE [throws |-> TRUE, val |-> 0]

\* ------------------------------------------------------------------------
\* ParseFaceLine
\* ------------------------------------------------------------------------
\* fixIndex lambda: the resolved index, or the throw of
\* std::runtime_error("OBJ index cannot be zero")
fixIndex(raw, size) ==
  IF raw > 0 THEN [throws |-> FALSE, val |-> raw - 1]
  ELSE IF raw < 0 THEN [throws |-> FALSE, val |-> size + raw]
  ELSE [throws |-> TRUE, val |-> 0]

\* The body of the while loop: one corner token to one FaceIndex.  The
\* position component is always read; an empty texcoord or normal
\* component leaves the -1 of FaceIndex{-1,-1,-1}.
ParseToken(tok, obj) ==
  LET fv == fixIndex(tok.v, Len(obj.positions))
      fvt == IF tok.vt = <<>> THEN [throws |-> FALSE, val |-> -1]
             ELSE fixIndex(tok.vt[1], Len(obj.texcoords))
      fvn == IF tok.vn = <<>> THEN [throws |-> FALSE, val |-> -1]
             ELSE fixIndex(tok.vn[1], Len(obj.normals))
  IN [throws |-> fv.throws \/ fvt.throws \/ fvn.throws,
      idx |-> FaceIndex(fv.val, fvt.val, fvn.val)]

ParseFaceLine(tokens, obj) ==
  [throws |-> \E i \in 1..Len(tokens) : ParseToken(tokens[i], obj).throws,
   result |-> [i \in 1..Len(tokens) |-> ParseToken(tokens[i], obj).idx]]

\* The loop with a strip in place of the fan: Face{result[i], result[i+1],
\* result[i+2]}
RECURSIVE Triangulate_Strip(_, _, _)
Triangulate_Strip(result, i, acc) ==
  IF i >= (Len(result) - 2) % SizeMod THEN [oob |-> FALSE, faces |-> acc]
  ELSE IF i + 2 >= Len(result) THEN [oob |-> TRUE, faces |-> acc]
  ELSE Triangulate_Strip(result, i + 1,
         Append(acc, <<result[i + 1], result[i + 2], result[i + 3]>>))

\* ------------------------------------------------------------------------
\* AnalyzeObj
\* ------------------------------------------------------------------------
\* for (size_t i = 0; i < result.size() - 2; i++) push Face{result[0],
\* result[i+1], result[i+2]}: the faces pushed, and whether the loop read
\* result past its end (the bound is computed in size_t and wraps)
RECURSIVE Triangulate(_, _, _)
Triangulate(result, i, acc) ==
  IF i >= (Len(result) - 2) % SizeMod THEN [oob |-> FALSE, faces |-> acc]
  ELSE IF i + 2 >= Len(result) THEN [oob |-> TRUE, faces |-> acc]
  ELSE Triangulate(result, i + 1,
                   Append(acc, <<result[1], result[i + 2], result[i + 3]>>))

\* The sub meshes of all meshes, in the order of the two nested loops of
\* CreateBufferData (meshes, then subMeshs)
RECURSIVE SubMeshesOf(_)
SubMeshesOf(meshes) ==
  IF meshes = <<>> THEN <<>>
  ELSE Head(meshes).subMeshs \o SubMeshesOf(Tail(meshes))

RECURSIVE FacesOf(_)
FacesOf(subMeshs) ==
  IF subMeshs = <<>> THEN <<>>
  ELSE Head(subMeshs).faces \o FacesOf(Tail(subMeshs))

SubMeshCount(obj) == Len(SubMeshesOf(obj.meshes))
FaceCount(obj) == Len(FacesOf(SubMeshesOf(obj.meshes)))

\* pFace->push_back(face) for every face of fs
PushFaces(obj, ptr, fs) ==
  [obj EXCEPT !.meshes[ptr.m].subMeshs[ptr.s].faces = @ \o fs]

Stop(p, e) == pc' = p /\ err' = e

\* std::ifstream ifs(fname)
OpenObj ==
  /\ pc = "OpenObj"
  /\ UNCHANGED chunkVars
  /\ \/ pc' = "AnalyzeObj" /\ UNCHANGED err
     \/ Stop("return1", "Could not open")
  /\ UNCHANGED <<objVars, mtlVars, bufVars, output>>

\* "o name" that leaves the face pointer where it was
ObjLineO_KeepTarget(name) ==
  /\ pc = "AnalyzeObj"
  /\ UNCHANGED chunkVars
  /\ UNCHANGED <<mtlVars, bufVars, output>>
  /\ Len(object.meshes) < MaxMeshes
  /\ object_name' = name
  /\ object' = [object EXCEPT !.meshes = Append(@, [subMeshs |-> <<>>])]
  /\ UNCHANGED <<pc, err, pFace>>

\* "o name"
ObjLineO(name) ==
  /\ pc = "AnalyzeObj"
  /\ UNCHANGED chunkVars
  /\ UNCHANGED <<mtlVars, bufVars, output>>
  /\ Len(object.meshes) < MaxMeshes
  /\ object_name' = name
  /\ object' = [object EXCEPT !.meshes = Append(@, [subMeshs |-> <<>>])]
  /\ pFace' = NullPtr
  /\ UNCHANGED <<pc, err>>

\* "v x y z"
ObjLineV(val) ==
  /\ pc = "AnalyzeObj"
  /\ UNCHANGED chunkVars
  /\ UNCHANGED <<mtlVars, bufVars, output>>
  /\ Len(object.positions) < MaxPositions
  /\ object' = [object EXCEPT !.positions = Append(@, val)]
  /\ UNCHANGED <<pc, err, pFace, object_name>>

\* "vn x y z"
ObjLineVn(val) ==
  /\ pc = "AnalyzeObj"
  /\ UNCHANGED chunkVars
  /\ UNCHANGED <<mtlVars, bufVars, output>>
  /\ Len(object.normals) < MaxNormals
  /\ object' = [object EXCEPT !.normals = Append(@, val)]
  /\ UNCHANGED <<pc, err, pFace, object_name>>

\* "vt u v": uv.y = 1.0f - uv.y
ObjLineVt(val) ==
  /\ pc = "AnalyzeObj"
  /\ UNCHANGED chunkVars
  /\ UNCHANGED <<mtlVars, bufVars, output>>
  /\ Len(object.texcoords) < MaxTexcoords
  /\ object' = [object EXCEPT !.texcoords = Append(@, <<val[1], 1 - val[2]>>)]
  /\ UNCHANGED <<pc, err, pFace, object_name>>

\* "f c0 c1 ..."
ObjLineF(tokens) ==
  /\ pc = "AnalyzeObj"
  /\ UNCHANGED chunkVars
  /\ UNCHANGED <<mtlVars, bufVars, output>>
  /\ FaceCount(object) < MaxFaces
  /\ UNCHANGED <<pFace, object_name>>
  /\ IF pFace = NullPtr
     THEN Stop("return1", "has no material assigned.") /\ UNCHANGED object
     ELSE LET parsed == ParseFaceLine(tokens, object)
              tri == Triangulate(parsed.result, 0, <<>>)
          IN IF parsed.throws
             THEN Stop("terminate", "OBJ index cannot be zero")
                  /\ UNCHANGED object
             ELSE IF tri.oob \/ (pFace = WildPtr /\ tri.faces # <<>>)
             THEN \* a read past the end of result, or a push through a
                  \* pointer to no face list: undefined behaviour
                  Stop("crash", "") /\ UNCHANGED object
             ELSE /\ object' = IF pFace = WildPtr THEN object
                               ELSE PushFaces(object, pFace, tri.faces)
                  /\ UNCHANGED <<pc, err>>

\* "usemtl material"
ObjLineUsemtl(material) ==
  /\ pc = "AnalyzeObj"
  /\ UNCHANGED chunkVars
  /\ UNCHANGED <<mtlVars, bufVars, output>>
  /\ SubMeshCount(object) < MaxSubMeshes
  /\ UNCHANGED object_name
  /\ IF object.meshes = <<>>
     THEN \* object.meshes.back() of an empty vector: undefined behaviour
          /\ UNCHANGED object
          /\ \/ Stop("crash", "") /\ UNCHANGED pFace
             \/ pFace' = WildPtr /\ UNCHANGED <<pc, err>>
     ELSE LET m == Len(object.meshes) IN
          /\ object' = [object EXCEPT !.meshes[m].subMeshs =
                          Append(@, [material |-> material, faces |-> <<>>])]
          /\ pFace' = FacePtr(m, Len(object.meshes[m].subMeshs) + 1)
          /\ UNCHANGED <<pc, err>>

\* "mtllib name"
ObjLineMtllib(name) ==
  /\ pc = "AnalyzeObj"
  /\ UNCHANGED chunkVars
  /\ UNCHANGED <<mtlVars, bufVars, output>>
  /\ object' = [object EXCEPT !.mtllib = name]
  /\ UNCHANGED <<pc, err, pFace, object_name>>

\* an empty line, a comment, or a line of any other type
ObjLineSkip ==
  /\ pc = "AnalyzeObj"
  /\ UNCHANGED chunkVars
  /\ UNCHANGED <<mtlVars, bufVars, output>>
  /\ UNCHANGED <<pc, err, object, pFace, object_name>>

\* std::getline fails at the end of the file: return 0.  The locals pFace
\* and object_name end with the call.
ObjEof ==
  /\ pc = "AnalyzeObj"
  /\ UNCHANGED chunkVars
  /\ UNCHANGED <<mtlVars, bufVars, output>>
  /\ pc' = "GetMaterialPath"
  /\ pFace' = NullPtr
  /\ object_name' = ""
  /\ UNCHANGED <<err, object>>

\* ------------------------------------------------------------------------
\* GetMaterialPath
\* ------------------------------------------------------------------------
GetMaterialPath ==
  /\ pc = "GetMaterialPath"
  /\ UNCHANGED chunkVars
  /\ UNCHANGED <<objVars, mtlVars, bufVars, output>>
  /\ IF object.mtllib = ""
     THEN Stop("returnM1", "No mtllib specified in obj file.")
     ELSE \/ Stop("returnM1", "Material not found: ")
          \/ pc' = "OpenMtl" /\ UNCHANGED err

\* sqrtf on the integers of the model
ISqrt(n) == CHOOSE r \in 0..n : r * r <= n /\ n < (r + 1) * (r + 1)

\* ------------------------------------------------------------------------
\* RegisterTexture, ExtractTextureFilename
\* ------------------------------------------------------------------------
\* struct MaterialInfo with its default member initialisers
MaterialInfo ==
  [diffuseColor |-> <<1, 1, 1, 1>>, metallicFactor |-> 0,
   roughnessFactor |-> 1, emissiveColor |-> <<0, 0, 0>>,
   baseColorTexIndex |-> -1, normalTexIndex |-> -1,
   metalRoughTexIndex |-> -1, emissiveTexIndex |-> -1]

\* The DDS bytes the codec makes of the image at path for a texture type
DdsOf(path, type) == <<Len(path), IF type = Normal THEN 5 ELSE 7>>

\* RegisterTexture with the path alone as the key of textureIndexMap
RegisterTexture_KeyByPath(path, type, texs, texMap, loads, converts) ==
  LET key == <<path, BaseColor>> IN
  IF key \in DOMAIN texMap
  THEN [index |-> texMap[key], textures |-> texs, textureIndexMap |-> texMap]
  ELSE IF ~loads \/ ~converts
  THEN [index |-> -1, textures |-> texs, textureIndexMap |-> texMap]
  ELSE [index |-> Len(texs),
        textures |-> Append(texs, [type |-> type, data |-> DdsOf(path, type)]),
        textureIndexMap |-> (key :> Len(texs)) @@ texMap]

\* RegisterTexture: the index returned and the tables it leaves.  loads and
\* converts tell whether LoadFromWICFile and ConvertToDDSMemory succeed.
RegisterTexture(path, type, texs, texMap, loads, converts) ==
  LET key == <<path, type>> IN
  IF key \in DOMAIN texMap
  THEN [index |-> texMap[key], textures |-> texs, textureIndexMap |-> texMap]
  ELSE IF ~loads \/ ~converts
  THEN [index |-> -1, textures |-> texs, textureIndexMap |-> texMap]
  ELSE [index |-> Len(texs),
        textures |-> Append(texs, [type |-> type, data |-> DdsOf(path, type)]),
        textureIndexMap |-> (key :> Len(texs)) @@ texMap]

IsOption(token) == token \in OptionFlags

\* ExtractTextureFilename: skip "-flag value" pairs; the file name is the
\* first other token and all that follows it
RECURSIVE ExtractTextureFilename(_)
ExtractTextureFilename(tokens) ==
  IF tokens = <<>> THEN <<>>
  ELSE IF IsOption(Head(tokens))
  THEN IF Len(tokens) < 2 THEN <<>>
       ELSE ExtractTextureFilename(Tail(Tail(tokens)))
  ELSE tokens

\* ------------------------------------------------------------------------
\* AnalyzeMtl
\* ------------------------------------------------------------------------
\* std::ifstream ifs(path.c_str())
OpenMtl ==
  /\ pc = "OpenMtl"
  /\ UNCHANGED chunkVars
  /\ \/ pc' = "AnalyzeMtl" /\ UNCHANGED err
     \/ Stop("return1", "Could not open")
  /\ UNCHANGED <<objVars, mtlVars, bufVars, output>>

\* "newmtl name" that adds no material for a name declared before
MtlLineNewmtl_NoDuplicate(name) ==
  /\ pc = "AnalyzeMtl"
  /\ UNCHANGED chunkVars
  /\ Len(materials) < MaxMaterials
  /\ materials' = IF name \in DOMAIN materialIndexMap THEN materials
                  ELSE Append(materials, MaterialInfo)
  /\ materialIndexMap' = (name :> m_index) @@ materialIndexMap
  /\ m_index' = m_index + 1
  /\ UNCHANGED <<pc, err, objVars, textures, textureIndexMap, bufVars, output>>

\* "newmtl name"
MtlLineNewmtl(name) ==
  /\ pc = "AnalyzeMtl"
  /\ UNCHANGED chunkVars
  /\ Len(materials) < MaxMaterials
  /\ materials' = Append(materials, MaterialInfo)
  /\ materialIndexMap' = (name :> m_index) @@ materialIndexMap
  /\ m_index' = m_index + 1
  /\ UNCHANGED <<pc, err, objVars, textures, textureIndexMap, bufVars, output>>

\* "Kd", "Ks", "Ns", "Ke": materials.back().field = value.  There is no
\* test of materials.empty(): on an empty vector back() is undefined
\* behaviour, a fault or a store to memory that is no material.
MtlLineAttr(field, value) ==
  /\ pc = "AnalyzeMtl"
  /\ UNCHANGED chunkVars
  /\ UNCHANGED <<objVars, materialIndexMap, textures, textureIndexMap,
                 m_index, bufVars, output>>
  /\ IF materials = <<>>
     THEN /\ UNCHANGED materials
          /\ \/ Stop("crash", "")
             \/ UNCHANGED <<pc, err>>
     ELSE /\ materials' = [materials EXCEPT ![Len(materials)][field] = value]
          /\ UNCHANGED <<pc, err>>

\* "Kd r g b": diffuseColor = { color.x, color.y, color.z, 1.0f }
MtlLineKd(color) ==
  MtlLineAttr("diffuseColor", <<color[1], color[2], color[3], 1>>)

\* "Ks r g b": metallicFactor = specularColor.x
MtlLineKs(color) == MtlLineAttr("metallicFactor", color[1])

\* "Ns n": roughnessFactor = 1.0f - sqrtf(Ns / 1000.0f)
MtlLineNs(Ns) == MtlLineAttr("roughnessFactor", 1 - ISqrt(Ns \div 1000))

\* "Ke r g b"
MtlLineKe(color) == MtlLineAttr("emissiveColor", color)

\* "map_Kd ..." (slot baseColorTexIndex, type BaseColor) and
\* "map_Bump ..." (slot normalTexIndex, type Normal).  exists tells
\* whether the file is found, under its own path or beside the mtl file.
MtlLineMap(key, slot, type, tokens, exists, loads, converts) ==
  /\ pc = "AnalyzeMtl"
  /\ UNCHANGED chunkVars
  /\ UNCHANGED <<objVars, materialIndexMap, m_index, bufVars, output>>
  /\ IF materials = <<>>
     THEN UNCHANGED <<pc, err, materials, textures, textureIndexMap>>
     ELSE LET name == ExtractTextureFilename(tokens)
              reg == RegisterTexture(name, type, textures, textureIndexMap,
                                     loads, converts)
          IN IF name = <<>>
             THEN Stop("return1", "")
                  /\ UNCHANGED <<materials, textures, textureIndexMap>>
             ELSE IF ~exists
             THEN Stop("return1", "Texture not found: ")
                  /\ UNCHANGED <<materials, textures, textureIndexMap>>
             ELSE /\ materials' =
                       [materials EXCEPT ![Len(materials)][slot] = reg.index]
                  /\ textures' = reg.textures
                  /\ textureIndexMap' = reg.textureIndexMap
                  /\ UNCHANGED <<pc, err>>

MtlLineMapKd(tokens, exists, loads, converts) ==
  MtlLineMap("map_Kd", "baseColorTexIndex", BaseColor, tokens,
             exists, loads, converts)

MtlLineMapBump(tokens, exists, loads, converts) ==
  MtlLineMap("map_Bump", "normalTexIndex", Normal, tokens,
             exists, loads, converts)

\* std::getline fails at the end of the file: return 0.  textureIndexMap
\* and m_index end with the call.
MtlEof ==
  /\ pc = "AnalyzeMtl"
  /\ UNCHANGED chunkVars
  /\ pc' = "CreateBufferData"
  /\ textureIndexMap' = <<>>
  /\ m_index' = 0
  /\ UNCHANGED <<err, objVars, materials, materialIndexMap, textures,
                 bufVars, output>>

\* ------------------------------------------------------------------------
\* MakeVertex, CreateBufferData
\* ------------------------------------------------------------------------
\* operator== that leaves the normal index out of the comparison
FaceIndexEq_NoNormal(a, b) == a.v = b.v /\ a.vt = b.vt

\* FaceIndex::operator== (std::hash<FaceIndex> hashes the same three fields)
FaceIndexEq(a, b) == a.v = b.v /\ a.vt = b.vt /\ a.vn = b.vn

\* XMVector3Normalize, exact for the axis-aligned normals of the model; the
\* zero vector stays the zero vector
Normalize(n) ==
  LET len == ISqrt(n[1] * n[1] + n[2] * n[2] + n[3] * n[3])
  IN IF len = 0 THEN n ELSE <<n[1] \div len, n[2] \div len, n[3] \div len>>

\* What a read past the end of a vector yields when it does not fault
Indeterminate3 == <<-9, -9, -9>>
Indeterminate2 == <<-9, -9>>

\* MakeVertex: the vertex, and whether positions, normals or texcoords was
\* read out of its bounds
MakeVertex(obj, face) ==
  LET vOk == face.v >= 0 /\ face.v < Len(obj.positions)
      vnOk == face.vn < Len(obj.normals)
      vtOk == face.vt < Len(obj.texcoords)
  IN [oob |-> ~vOk \/ (face.vn >= 0 /\ ~vnOk) \/ (face.vt >= 0 /\ ~vtOk),
      vertex |->
        [position |-> IF vOk THEN obj.positions[face.v + 1]
                      ELSE Indeterminate3,
         normal |-> IF face.vn >= 0
                    THEN IF vnOk THEN Normalize(obj.normals[face.vn + 1])
                         ELSE Indeterminate3
                    ELSE <<0, 0, 1>>,
         texcoord |-> IF face.vt >= 0
                      THEN IF vtOk THEN obj.texcoords[face.vt + 1]
                           ELSE Indeterminate2
                      ELSE <<0, 0>>,
         tangent |-> <<0, 0, 0, 0>>]]

\* indexMap.find(key): the entries of indexMap whose key equals key
Find(indexMap, key) ==
  {i \in 1..Len(indexMap) : FaceIndexEq(indexMap[i].key, key)}

\* The two inner loops of CreateBufferData over the corners of the faces of
\* one sub mesh.  st: indexMap, vertexBuffer, indexBuffer, and oob, whether
\* MakeVertex read out of bounds so far.
RECURSIVE ConsolidateCorners(_, _, _)
ConsolidateCorners(obj, corners, st) ==
  IF corners = <<>> THEN st
  ELSE LET key == Head(corners)
           it == Find(st.indexMap, key)
           newIndex == Len(st.vertexBuffer)
           made == MakeVertex(obj, key)
       IN ConsolidateCorners(obj, Tail(corners),
            IF it = {}
            THEN [indexMap |-> Append(st.indexMap,
                                      [key |-> key, value |-> newIndex]),
                  vertexBuffer |-> Append(st.vertexBuffer, made.vertex),
                  indexBuffer |-> Append(st.indexBuffer, newIndex),
                  oob |-> st.oob \/ made.oob]
            ELSE [st EXCEPT !.indexBuffer =
                    Append(@, st.indexMap[CHOOSE i \in it : TRUE].value)])

\* The corners of a list of faces, face by face
RECURSIVE CornersOf(_)
CornersOf(faces) ==
  IF faces = <<>> THEN <<>> ELSE Head(faces) \o CornersOf(Tail(faces))

\* MeshInfo with the start counted in triangles, not in indices
MeshInfoOf_StartInFaces(subMesh, matMap, idxBuf) ==
  [materialIndex |-> matMap[subMesh.material],
   startIndex |-> Len(idxBuf) \div 3,
   primCount |-> Len(subMesh.faces)]

\* MeshInfo of a sub mesh that starts at the current end of the index buffer
MeshInfoOf(subMesh, matMap, idxBuf) ==
  [materialIndex |-> matMap[subMesh.material],
   startIndex |-> Len(idxBuf),
   primCount |-> Len(subMesh.faces)]

\* The loop over the sub meshes (of all meshes, in order).  st carries also
\* meshInfo and throws, whether "Material not found" was thrown.
RECURSIVE ConsolidateSubMeshes(_, _, _, _)
ConsolidateSubMeshes(obj, matMap, subMeshs, st) ==
  IF subMeshs = <<>> THEN st
  ELSE LET sm == Head(subMeshs) IN
       IF sm.material \notin DOMAIN matMap
       THEN [st EXCEPT !.throws = TRUE]
       ELSE LET data == MeshInfoOf(sm, matMap, st.indexBuffer)
                done == ConsolidateCorners(obj, CornersOf(sm.faces),
                          [indexMap |-> st.indexMap,
                           vertexBuffer |-> st.vertexBuffer,
                           indexBuffer |-> st.indexBuffer,
                           oob |-> st.oob])
            IN ConsolidateSubMeshes(obj, matMap, Tail(subMeshs),
                 [indexMap |-> done.indexMap,
                  vertexBuffer |-> done.vertexBuffer,
                  indexBuffer |-> done.indexBuffer,
                  oob |-> done.oob,
                  meshInfo |-> Append(st.meshInfo, data),
                  throws |-> FALSE])

CreateBufferDataRun(obj, matMap) ==
  ConsolidateSubMeshes(obj, matMap, SubMeshesOf(obj.meshes),
    [indexMap |-> <<>>, vertexBuffer |-> <<>>, indexBuffer |-> <<>>,
     oob |-> FALSE, meshInfo |-> <<>>, throws |-> FALSE])

\* CreateBufferData with the exception swallowed: the conversion goes on
CreateBufferData_Swallow ==
  /\ pc = "CreateBufferData"
  /\ UNCHANGED chunkVars
  /\ UNCHANGED <<objVars, mtlVars, output>>
  /\ LET run == CreateBufferDataRun(object, materialIndexMap) IN
     /\ meshInfo' = run.meshInfo
     /\ vertexBuffer' = run.vertexBuffer
     /\ indexBuffer' = run.indexBuffer
     /\ \/ run.oob /\ Stop("crash", "")
        \/ pc' = "GenerateTangents" /\ UNCHANGED err

CreateBufferData ==
  /\ pc = "CreateBufferData"
  /\ UNCHANGED chunkVars
  /\ UNCHANGED <<objVars, mtlVars, output>>
  /\ LET run == CreateBufferDataRun(object, materialIndexMap) IN
     /\ meshInfo' = run.meshInfo
     /\ vertexBuffer' = run.vertexBuffer
     /\ indexBuffer' = run.indexBuffer
     /\ \/ \* a vector read out of its bounds: undefined behaviour
           run.oob /\ Stop("crash", "")
        \/ IF run.throws
           THEN Stop("terminate", "Material not found: ")
           ELSE pc' = "GenerateTangents" /\ UNCHANGED err

\* ------------------------------------------------------------------------
\* GenerateTangents
\* ------------------------------------------------------------------------
Add3(a, b) == <<a[1] + b[1], a[2] + b[2], a[3] + b[3]>>
Sub3(a, b) == <<a[1] - b[1], a[2] - b[2], a[3] - b[3]>>
Scale3(a, k) == <<a[1] * k, a[2] * k, a[3] * k>>
Div3(a, k) == <<a[1] \div k, a[2] \div k, a[3] \div k>>
Dot3(a, b) == a[1] * b[1] + a[2] * b[2] + a[3] * b[3]
Cross3(a, b) ==
  <<a[2] * b[3] - a[3] * b[2], a[3] * b[1] - a[1] * b[3],
    a[1] * b[2] - a[2] * b[1]>>

\* isFlatFace: d01 > 0.999f && d12 > 0.999f, on integer coordinates
isFlatFace(vertices, i0, i1, i2) ==
  /\ Dot3(vertices[i0 + 1].normal, vertices[i1 + 1].normal) >= 1
  /\ Dot3(vertices[i1 + 1].normal, vertices[i2 + 1].normal) >= 1

\* The loop over the triangles with add() for flat triangles too
RECURSIVE TangentTriangles_AlwaysAdd(_, _, _, _)
TangentTriangles_AlwaysAdd(vertices, indices, i, acc) ==
  IF ~(i + 2 < Len(indices)) THEN acc
  ELSE LET i0 == indices[i + 1]
           i1 == indices[i + 2]
           i2 == indices[i + 3]
           v0 == vertices[i0 + 1]
           v1 == vertices[i1 + 1]
           v2 == vertices[i2 + 1]
           du1 == v1.texcoord[1] - v0.texcoord[1]
           dv1 == v1.texcoord[2] - v0.texcoord[2]
           du2 == v2.texcoord[1] - v0.texcoord[1]
           dv2 == v2.texcoord[2] - v0.texcoord[2]
           denom == du1 * dv2 - du2 * dv1
           e1 == Sub3(v1.position, v0.position)
           e2 == Sub3(v2.position, v0.position)
           t == Div3(Sub3(Scale3(e1, dv2), Scale3(e2, dv1)), denom)
           b == Div3(Sub3(Scale3(e2, du1), Scale3(e1, du2)), denom)
           times(k) == (IF k = i0 + 1 THEN 1 ELSE 0)
                     + (IF k = i1 + 1 THEN 1 ELSE 0)
                     + (IF k = i2 + 1 THEN 1 ELSE 0)
       IN TangentTriangles_AlwaysAdd(vertices, indices, i + 3,
            IF denom = 0 THEN acc
            ELSE [tan |-> [k \in DOMAIN acc.tan |->
                            Add3(acc.tan[k], Scale3(t, times(k)))],
                  bitan |-> [k \in DOMAIN acc.bitan |->
                              Add3(acc.bitan[k], Scale3(b, times(k)))]])

\* The loop over the triangles: acc holds tanAccum and bitanAccum.  The
\* coordinates of the model are integers, so |denom| < 1e-6 is denom = 0
\* and the division by denom is the integer division.
RECURSIVE TangentTriangles(_, _, _, _)
TangentTriangles(vertices, indices, i, acc) ==
  IF ~(i + 2 < Len(indices)) THEN acc
  ELSE LET i0 == indices[i + 1]
           i1 == indices[i + 2]
           i2 == indices[i + 3]
           v0 == vertices[i0 + 1]
           v1 == vertices[i1 + 1]
           v2 == vertices[i2 + 1]
           du1 == v1.texcoord[1] - v0.texcoord[1]
           dv1 == v1.texcoord[2] - v0.texcoord[2]
           du2 == v2.texcoord[1] - v0.texcoord[1]
           dv2 == v2.texcoord[2] - v0.texcoord[2]
           denom == du1 * dv2 - du2 * dv1
           e1 == Sub3(v1.position, v0.position)
           e2 == Sub3(v2.position, v0.position)
           t == Div3(Sub3(Scale3(e1, dv2), Scale3(e2, dv1)), denom)
           b == Div3(Sub3(Scale3(e2, du1), Scale3(e1, du2)), denom)
           touched == {i0 + 1, i1 + 1, i2 + 1}
       IN TangentTriangles(vertices, indices, i + 3,
            IF denom = 0 THEN acc
            ELSE IF isFlatFace(vertices, i0, i1, i2)
            THEN [tan |-> [k \in DOMAIN acc.tan |->
                            IF k \in touched THEN t ELSE acc.tan[k]],
                  bitan |-> [k \in DOMAIN acc.bitan |->
                              IF k \in touched THEN b ELSE acc.bitan[k]]]
            ELSE \* add(i0), add(i1), add(i2): a vertex that is two corners
                 \* of the triangle is added to twice
                 LET times(k) == (IF k = i0 + 1 THEN 1 ELSE 0)
                               + (IF k = i1 + 1 THEN 1 ELSE 0)
                               + (IF k = i2 + 1 THEN 1 ELSE 0)
                 IN [tan |-> [k \in DOMAIN acc.tan |->
                               Add3(acc.tan[k], Scale3(t, times(k)))],
                     bitan |-> [k \in DOMAIN acc.bitan |->
                                 Add3(acc.bitan[k], Scale3(b, times(k)))]])

\* The loop over the vertices: Gram-Schmidt and handedness
TangentOf(vertex, tanAcc, bitanAcc) ==
  LET N == vertex.normal
      T == Normalize(Sub3(tanAcc, Scale3(N, Dot3(N, tanAcc))))
      w == IF Dot3(Cross3(N, T), bitanAcc) < 0 THEN -1 ELSE 1
  IN <<T[1], T[2], T[3], w>>

GenerateTangentsRun(vertices, indices) ==
  LET zero == [k \in DOMAIN vertices |-> <<0, 0, 0>>]
      acc == TangentTriangles(vertices, indices, 0,
                              [tan |-> zero, bitan |-> zero])
  IN [k \in DOMAIN vertices |->
        [vertices[k] EXCEPT
           !.tangent = TangentOf(vertices[k], acc.tan[k], acc.bitan[k])]]

GenerateTangents ==
  /\ pc = "GenerateTangents"
  /\ UNCHANGED chunkVars
  /\ vertexBuffer' = GenerateTangentsRun(vertexBuffer, indexBuffer)
  /\ pc' = "OutputImdl"
  /\ UNCHANGED <<err, objVars, mtlVars, meshInfo, indexBuffer, output>>

\* ------------------------------------------------------------------------
\* BinaryWriter, WriteChunk, OutputImdl
\* ------------------------------------------------------------------------
\* WriteRaw of a 32-bit value: its four bytes, least significant first
\* (two's complement for a negative value)
Bytes32(v) ==
  <<v % 256, (v \div 256) % 256, (v \div 65536) % 256,
    (v \div 16777216) % 256>>

WriteUInt32(buf, v) == buf \o Bytes32(v)
WriteInt32(buf, v) == buf \o Bytes32(v)
\* The model's coordinates are integers: a float is written as the 32-bit
\* integer of its value
WriteFloat(buf, v) == buf \o Bytes32(v)
WriteBytes(buf, data) == buf \o data

RECURSIVE WriteFloats(_, _)
WriteFloats(buf, vs) ==
  IF vs = <<>> THEN buf ELSE WriteFloats(WriteFloat(buf, Head(vs)), Tail(vs))

RECURSIVE WriteTextures(_, _)
WriteTextures(buf, texs) ==
  IF texs = <<>> THEN buf
  ELSE LET tex == Head(texs) IN
       WriteTextures(
         WriteBytes(WriteUInt32(WriteUInt32(buf, tex.type), Len(tex.data)),
                    tex.data),
         Tail(texs))

BuildTextureChunk(texs) == WriteTextures(WriteUInt32(<<>>, Len(texs)), texs)

SerializeMaterial(buf, m) ==
  LET colors == WriteFloats(buf,
                  m.diffuseColor \o <<m.metallicFactor, m.roughnessFactor>>
                  \o m.emissiveColor)
  IN WriteInt32(WriteInt32(WriteInt32(WriteInt32(colors,
       m.baseColorTexIndex), m.normalTexIndex), m.metalRoughTexIndex),
       m.emissiveTexIndex)

RECURSIVE WriteMaterials(_, _)
WriteMaterials(buf, ms) ==
  IF ms = <<>> THEN buf
  ELSE WriteMaterials(SerializeMaterial(buf, Head(ms)), Tail(ms))

BuildMaterialChunk(ms) == WriteMaterials(WriteUInt32(<<>>, Len(ms)), ms)

SerializeMesh(buf, m) ==
  WriteUInt32(WriteUInt32(WriteUInt32(buf, m.startIndex), m.primCount),
              m.materialIndex)

RECURSIVE WriteMeshes(_, _)
WriteMeshes(buf, ms) ==
  IF ms = <<>> THEN buf ELSE WriteMeshes(SerializeMesh(buf, Head(ms)), Tail(ms))

BuildMeshChunk(ms) == WriteMeshes(WriteUInt32(<<>>, Len(ms)), ms)

SerializeVertex(buf, v) ==
  WriteFloats(buf, v.position \o v.normal \o v.texcoord \o v.tangent)

RECURSIVE WriteVertices(_, _)
WriteVertices(buf, vs) ==
  IF vs = <<>> THEN buf
  ELSE WriteVertices(SerializeVertex(buf, Head(vs)), Tail(vs))

BuildVertexChunk(vs) == WriteVertices(WriteUInt32(<<>>, Len(vs)), vs)

RECURSIVE WriteUInt32s(_, _)
WriteUInt32s(buf, vs) ==
  IF vs = <<>> THEN buf
  ELSE WriteUInt32s(WriteUInt32(buf, Head(vs)), Tail(vs))

\* BinaryWriter::WriteVector<uint32_t>
WriteVector(buf, vec) == WriteUInt32s(WriteUInt32(buf, Len(vec)), vec)

BuildIndexChunk(indices) == WriteVector(<<>>, indices)

\* WriteChunk with the eight bytes of the header counted in header.size
WriteChunk_SizeWithHeader(ofs, type, data) ==
  ofs \o Bytes32(type) \o Bytes32(Len(data) + 8) \o data

\* WriteChunk: the ChunkHeader (type, size), then the data
WriteChunk(ofs, type, data) ==
  ofs \o Bytes32(type) \o Bytes32(Len(data)) \o data

FileHeaderBytes ==
  Bytes32(MAGIC_IMDL) \o Bytes32(FILE_VERSION) \o Bytes32(CHUNK_COUNT)

\* OutputImdl with the mesh chunk written before the material chunk
OutputImdlRun_MeshBeforeMaterial(ms, infos, texs, vs, indices) ==
  WriteChunk(WriteChunk(WriteChunk(WriteChunk(WriteChunk(FileHeaderBytes,
    CHUNK_TEXTURE, BuildTextureChunk(texs)),
    CHUNK_MESH, BuildMeshChunk(infos)),
    CHUNK_MATERIAL, BuildMaterialChunk(ms)),
    CHUNK_VERTEX, BuildVertexChunk(vs)),
    CHUNK_INDEX, BuildIndexChunk(indices))

OutputImdlRun(ms, infos, texs, vs, indices) ==
  WriteChunk(WriteChunk(WriteChunk(WriteChunk(WriteChunk(FileHeaderBytes,
    CHUNK_TEXTURE, BuildTextureChunk(texs)),
    CHUNK_MATERIAL, BuildMaterialChunk(ms)),
    CHUNK_MESH, BuildMeshChunk(infos)),
    CHUNK_VERTEX, BuildVertexChunk(vs)),
    CHUNK_INDEX, BuildIndexChunk(indices))

\* OutputImdl, and the return 0 of wmain after it
OutputImdl ==
  /\ pc = "OutputImdl"
  /\ UNCHANGED chunkVars
  /\ UNCHANGED <<objVars, mtlVars, bufVars>>
  /\ \/ Stop("return1", "Could not open") /\ UNCHANGED output
     \/ /\ output' = OutputImdlRun(materials, meshInfo, textures,
                                   vertexBuffer, indexBuffer)
        /\ pc' = "return0"
        /\ UNCHANGED err

\* ------------------------------------------------------------------------
\* ChunkIO.h: ReadChunk, and a caller that writes chunks and reads them back
\* ------------------------------------------------------------------------
\* The uint32_t whose four bytes, least significant first, start at
\* bytes[at]
U32(bytes, at) ==
  bytes[at] + 256 * bytes[at + 1] + 65536 * bytes[at + 2]
    + 16777216 * bytes[at + 3]

\* ChunkHeader as its eight bytes: type, then size
HeaderType(hdr) == U32(hdr, 1)
HeaderSize(hdr) == U32(hdr, 5)

\* ifs.read(p, n): with n bytes left it delivers them; with fewer it
\* delivers those that are left and sets failbit; on a stream that has
\* failed it delivers nothing.  data are the bytes stored at p.
StreamRead(stream, n) ==
  LET avail == Len(stream.bytes) - stream.pos IN
  IF stream.fail THEN [stream |-> stream, data |-> <<>>, ok |-> FALSE]
  ELSE IF avail >= n
  THEN [stream |-> [stream EXCEPT !.pos = @ + n],
        data |-> SubSeq(stream.bytes, stream.pos + 1, stream.pos + n),
        ok |-> TRUE]
  ELSE [stream |-> [stream EXCEPT !.pos = Len(stream.bytes), !.fail = TRUE],
        data |-> SubSeq(stream.bytes, stream.pos + 1, Len(stream.bytes)),
        ok |-> FALSE]

\* Memory mem after data is stored at its start
Store(mem, data) == data \o SubSeq(mem, Len(data) + 1, Len(mem))

\* buffer.resize(n): the first n elements, zeros where there were none
Resize(buf, n) == [i \in 1..n |-> IF i <= Len(buf) THEN buf[i] ELSE 0]

\* ReadChunk: what it returns and what it leaves in the stream, in header
\* and in buffer
ReadChunk(stream, hdr, buf) ==
  LET r1 == StreamRead(stream, 8)
      hdr1 == Store(hdr, r1.data)
  IN IF ~r1.ok
     THEN [ret |-> "false", ifs |-> r1.stream, header |-> hdr1, buffer |-> buf]
     ELSE LET size == HeaderSize(hdr1)
              r2 == StreamRead(r1.stream, size)
          IN [ret |-> IF r2.ok THEN "true" ELSE "false", ifs |-> r2.stream, header |-> hdr1,
              buffer |-> Store(Resize(buf, size), r2.data)]

\* The caller writes one more chunk to its output file
ChunkWrite(type, data) ==
  /\ pc = "WriteChunks"
  /\ Len(written) < MaxChunks
  /\ output' = WriteChunk(output, type, data)
  /\ written' = Append(written, [type |-> type, data |-> data])
  /\ UNCHANGED <<pc, err, objVars, mtlVars, bufVars, ifs, header, buffer, ret>>

\* The caller opens for reading a file that holds the first n bytes of
\* what was written: all of them, or a truncated copy
ChunkOpen(n) ==
  /\ pc = "WriteChunks"
  /\ pc' = "ReadChunks"
  /\ ifs' = Stream(SubSeq(output, 1, n))
  /\ UNCHANGED <<err, objVars, mtlVars, bufVars, output, header, buffer, ret,
                 written>>

\* The caller calls ReadChunk, until it returns false
ChunkRead ==
  /\ pc = "ReadChunks"
  /\ ret # "false"
  /\ LET r == ReadChunk(ifs, header, buffer) IN
     /\ ret' = r.ret
     /\ ifs' = r.ifs
     /\ header' = r.header
     /\ buffer' = r.buffer
  /\ UNCHANGED <<pc, err, objVars, mtlVars, bufVars, output, written>>

\* Nothing parsed, nothing built, no output file
ConverterIdle ==
  /\ err = ""
  /\ object = [mtllib |-> "", positions |-> <<>>, normals |-> <<>>,
               texcoords |-> <<>>, meshes |-> <<>>]
  /\ pFace = NullPtr
  /\ object_name = ""
  /\ materials = <<>>
  /\ materialIndexMap = <<>>
  /\ textures = <<>>
  /\ textureIndexMap = <<>>
  /\ m_index = 0
  /\ meshInfo = <<>>
  /\ vertexBuffer = <<>>
  /\ indexBuffer = <<>>
  /\ output = <<>>

Init ==
  /\ pc = "OpenObj"
  /\ ConverterIdle
  /\ ChunkIdle

\* wmain: the whole conversion, on small alphabets of scene lines
Next ==
  \/ OpenObj
  \/ \E name \in ObjNames : ObjLineO(name)
  \/ \E val \in ObjPosVals : ObjLineV(val)
  \/ \E tokens \in PipeFaceLines : ObjLineF(tokens)
  \/ \E material \in ObjMtlNames : ObjLineUsemtl(material)
  \/ \E name \in MtlLibs : ObjLineMtllib(name)
  \/ ObjEof
  \/ GetMaterialPath
  \/ OpenMtl
  \/ \E name \in MtlNames : MtlLineNewmtl(name)
  \/ \E tokens \in MapArgs, exists, loads, converts \in BOOLEAN :
       MtlLineMapKd(tokens, exists, loads, converts)
  \/ \E tokens \in MapArgs, exists, loads, converts \in BOOLEAN :
       MtlLineMapBump(tokens, exists, loads, converts)
  \/ MtlEof
  \/ CreateBufferData
  \/ GenerateTangents
  \/ OutputImdl

Spec == Init /\ [][Next]_vars

\* AnalyzeObj alone, on the full alphabet of face lines
NextObj ==
  \/ OpenObj
  \/ \E name \in ObjNames : ObjLineO(name)
  \/ \E val \in ObjPosVals : ObjLineV(val)
  \/ \E val \in NrmVals : ObjLineVn(val)
  \/ \E val \in TexVals : ObjLineVt(val)
  \/ \E tokens \in FaceLines : ObjLineF(tokens)
  \/ \E material \in ObjMtlNames : ObjLineUsemtl(material)
  \/ ObjLineSkip
  \/ ObjEof

SpecObj == Init /\ [][NextObj]_vars

\* The conversion up to CreateBufferData, on material files of newmtl lines
NextBuf ==
  \/ OpenObj
  \/ \E name \in ObjNames : ObjLineO(name)
  \/ \E val \in ObjPosVals : ObjLineV(val)
  \/ \E val \in NrmVals : ObjLineVn(val)
  \/ \E val \in TexVals : ObjLineVt(val)
  \/ \E tokens \in BufFaceLines : ObjLineF(tokens)
  \/ \E material \in ObjMtlNames : ObjLineUsemtl(material)
  \/ \E name \in MtlLibs : ObjLineMtllib(name)
  \/ ObjEof
  \/ GetMaterialPath
  \/ OpenMtl
  \/ \E name \in MtlNames : MtlLineNewmtl(name)
  \/ MtlEof
  \/ CreateBufferData

SpecBuf == Init /\ [][NextBuf]_vars

\* The conversion of a scene that holds a mtllib line and nothing else, on
\* the full alphabet of material lines
NextMtl ==
  \/ OpenObj
  \/ \E name \in MtlLibs : ObjLineMtllib(name)
  \/ ObjEof
  \/ GetMaterialPath
  \/ OpenMtl
  \/ \E name \in MtlNames : MtlLineNewmtl(name)
  \/ \E tokens \in MtlMapArgs, exists, loads, converts \in BOOLEAN :
       MtlLineMapKd(tokens, exists, loads, converts)
  \/ \E tokens \in MtlMapArgs, exists, loads, converts \in BOOLEAN :
       MtlLineMapBump(tokens, exists, loads, converts)
  \/ MtlEof
  \/ CreateBufferData
  \/ GenerateTangents
  \/ OutputImdl

SpecMtl == Init /\ [][NextMtl]_vars

\* The conversion of a scene that holds a mtllib line and nothing else, on
\* material files with attribute lines
NextAttr ==
  \/ OpenObj
  \/ \E name \in MtlLibs : ObjLineMtllib(name)
  \/ ObjEof
  \/ GetMaterialPath
  \/ OpenMtl
  \/ \E name \in AttrMtlNames : MtlLineNewmtl(name)
  \/ \E color \in ColorVals : MtlLineKd(color)
  \/ \E color \in ColorVals : MtlLineKs(color)
  \/ \E Ns \in NsVals : MtlLineNs(Ns)
  \/ \E color \in ColorVals : MtlLineKe(color)
  \/ \E tokens \in AttrMapArgs, exists, loads, converts \in BOOLEAN :
       MtlLineMapKd(tokens, exists, loads, converts)
  \/ \E tokens \in AttrMapArgs, exists, loads, converts \in BOOLEAN :
       MtlLineMapBump(tokens, exists, loads, converts)
  \/ MtlEof
  \/ CreateBufferData
  \/ GenerateTangents
  \/ OutputImdl

SpecAttr == Init /\ [][NextAttr]_vars

\* A caller of ChunkIO.h: chunks written, then read back from the file or
\* from a truncated copy of it
InitChunk ==
  /\ pc = "WriteChunks"
  /\ ConverterIdle
  /\ ChunkIdle

NextChunk ==
  \/ \E type \in ChunkTypes, data \in ChunkPayloads : ChunkWrite(type, data)
  \/ \E n \in 0..Len(output) : ChunkOpen(n)
  \/ ChunkRead

SpecChunk == InitChunk /\ [][NextChunk]_vars

\* The conversion from CreateBufferData on, for the scenes of one sub mesh
\* of one or two faces: the state wmain is in after AnalyzeObj read the
\* scene and AnalyzeMtl read a material file that declares the material
InitTan ==
  /\ pc = "CreateBufferData"
  /\ err = ""
  /\ \E fs \in TanFaceLists :
       object = [mtllib |-> "m.mtl", positions |-> TanPositions,
                 normals |-> TanNormals, texcoords |-> TanTexcoords,
                 meshes |-> <<[subMeshs |->
                               <<[material |-> "a", faces |-> fs]>>]>>]
  /\ pFace = NullPtr
  /\ object_name = ""
  /\ materials = <<MaterialInfo>>
  /\ materialIndexMap = ("a" :> 0)
  /\ textures = <<>>
  /\ textureIndexMap = <<>>
  /\ m_index = 0
  /\ meshInfo = <<>>
  /\ vertexBuffer = <<>>
  /\ indexBuffer = <<>>
  /\ output = <<>>
  /\ ChunkIdle

NextTan ==
  \/ CreateBufferData
  \/ GenerateTangents
  \/ OutputImdl

SpecTan == InitTan /\ [][NextTan]_vars

\* ========================================================================
\* Properties of AnalyzeObj and ParseFaceLine (SpecObj)
\* ========================================================================
\* The literals of a token that are present
Literals(tok) == <<tok.v>> \o tok.vt \o tok.vn

\* Some corner of the line has the literal 0 as a component
HasZero(tokens) ==
  \E i \in 1..Len(tokens) :
    \E k \in 1..Len(Literals(tokens[i])) : Literals(tokens[i])[k] = 0

\* The face list pFace points to
Target == object.meshes[pFace.m].subMeshs[pFace.s].faces
TargetAfter == object'.meshes[pFace.m].subMeshs[pFace.s].faces

\* No material was selected yet, or none since the last object declaration
NoMaterialSelected ==
  IF object.meshes = <<>> THEN pFace = NullPtr
  ELSE object.meshes[Len(object.meshes)].subMeshs = <<>>

\* All FaceIndex values the scene holds
StoredCorners == CornersOf(FacesOf(SubMeshesOf(object.meshes)))

\* C2: every face index stored in the scene is within the bounds of the
\* array it indexes: the position index in 0..len(positions)-1, the texcoord
\* and normal index absent (-1) or in 0..len-1 of their array.  The arrays
\* only grow, so an index in bounds when its line was parsed stays in bounds.
C2_StoredIndicesInBounds ==
  \A i \in 1..Len(StoredCorners) :
    LET c == StoredCorners[i] IN
    /\ c.v >= 0 /\ c.v < Len(object.positions)
    /\ c.vt >= -1 /\ c.vt < Len(object.texcoords)
    /\ c.vn >= -1 /\ c.vn < Len(object.normals)

\* C3, as stated: a face line with a literal 0 in any corner ends the
\* conversion with the zero-index error and stores nothing.
C3_ZeroAlwaysZeroIndexError ==
  [][\A tokens \in FaceLines :
       (HasZero(tokens) /\ ObjLineF(tokens)) =>
         /\ pc' = "terminate"
         /\ err' = "OBJ index cannot be zero"
         /\ object' = object]_vars

\* C3, amended: a face line with a literal 0 in any corner ends the
\* conversion and stores nothing; the failure is the zero-index error when a
\* face target is set, and the no-material-assigned failure when none is.
C3_ZeroIndexFails ==
  [][\A tokens \in FaceLines :
       (HasZero(tokens) /\ ObjLineF(tokens)) =>
         /\ object' = object
         /\ IF pFace = NullPtr
            THEN pc' = "return1" /\ err' = "has no material assigned."
            ELSE pc' = "terminate" /\ err' = "OBJ index cannot be zero"]_vars

\* A run ended by the zero-index error of a face line, with a face target
\* set and a face stored before
C3_Witness ==
  /\ pc = "terminate"
  /\ err = "OBJ index cannot be zero"
  /\ pFace.kind = "faces"
  /\ StoredCorners # <<>>

\* C4: a face line read while no material is selected (none yet, or none
\* since the last object declaration) ends parsing with the
\* no-material-assigned failure and leaves the scene as it was.
C4_NoMaterialAssigned ==
  [][\A tokens \in FaceLines :
       (NoMaterialSelected /\ ObjLineF(tokens)) =>
         /\ pc' = "return1"
         /\ err' = "has no material assigned."
         /\ object' = object]_vars

\* The failure of a face line that follows an object declaration that
\* follows a material selection with faces
C4_Witness ==
  /\ pc = "return1"
  /\ err = "has no material assigned."
  /\ Len(object.meshes) = 2
  /\ object.meshes[2].subMeshs = <<>>
  /\ StoredCorners # <<>>

\* C7: a face line of k >= 3 corners appends exactly the k-2 triangles
\* (c0,c1,c2), (c0,c2,c3), ..., (c0,c(k-2),c(k-1)) to the face list of the
\* selected sub mesh, after the faces it holds.
C7_FanTriangulation ==
  [][\A tokens \in FaceLines :
       (/\ Len(tokens) >= 3
        /\ ~HasZero(tokens)
        /\ pFace.kind = "faces"
        /\ ObjLineF(tokens)) =>
         LET c == ParseFaceLine(tokens, object).result
             k == Len(tokens)
             old == Len(Target)
         IN /\ Len(TargetAfter) = old + k - 2
            /\ SubSeq(TargetAfter, 1, old) = Target
            /\ \A j \in 1..(k - 2) :
                 TargetAfter[old + j] = <<c[1], c[j + 1], c[j + 2]>>]_vars

\* The two triangles of the quad 1/1/1 2/1/1 1/1 -1/-1/-1, parsed with two
\* positions, one texcoord and one normal
C7_Witness ==
  \E m \in 1..Len(object.meshes) :
    \E sm \in 1..Len(object.meshes[m].subMeshs) :
      object.meshes[m].subMeshs[sm].faces =
        << <<FaceIndex(0, 0, 0), FaceIndex(1, 0, 0), FaceIndex(0, 0, -1)>>,
           <<FaceIndex(0, 0, 0), FaceIndex(0, 0, -1), FaceIndex(1, 0, 0)>> >>

\* The index a literal stands for in an array of n elements
Resolved(lit, n) == IF lit > 0 THEN lit - 1 ELSE n + lit

\* C8: the first triangle a face line stores holds, for each of its first
\* three corners, the position literal n resolved to n-1 when positive and
\* to (length of positions when the line is parsed) + n when negative, and
\* likewise each present texcoord and normal literal; a position line read
\* later changes no stored index.
C8_IndexResolution ==
  [][/\ \A tokens \in FaceLines :
          (/\ Len(tokens) >= 3
           /\ ~HasZero(tokens)
           /\ pFace.kind = "faces"
           /\ ObjLineF(tokens)) =>
            \A j \in 1..3 :
              LET tok == tokens[j]
                  c == TargetAfter[Len(Target) + 1][j]
              IN /\ c.v = Resolved(tok.v, Len(object.positions))
                 /\ tok.vt # <<>> =>
                      c.vt = Resolved(tok.vt[1], Len(object.texcoords))
                 /\ tok.vn # <<>> =>
                      c.vn = Resolved(tok.vn[1], Len(object.normals))
     /\ \A val \in ObjPosVals :
          ObjLineV(val) => object'.meshes = object.meshes]_vars

\* The face "1 2 -1" parsed when one position was read, a second position
\* read after it: the -1 stands for the first position
C8_Witness ==
  /\ Len(object.positions) = 2
  /\ StoredCorners =
       <<FaceIndex(0, -1, -1), FaceIndex(1, -1, -1), FaceIndex(0, -1, -1)>>

\* The sub mesh the last material selection made: the last sub mesh of the
\* last mesh
LastSubMesh(obj) ==
  FacePtr(Len(obj.meshes), Len(obj.meshes[Len(obj.meshes)].subMeshs))

\* C16: the face target is null or the face list of the last sub mesh of
\* the last mesh, never a list of an earlier mesh and never a pointer to no
\* list; a face line appends its triangles to that last sub mesh and leaves
\* the face lists of all other sub meshes as they were.
C16_FacesGoToLastSubMesh ==
  [][/\ pFace' # NullPtr =>
          /\ object'.meshes # <<>>
          /\ object'.meshes[Len(object'.meshes)].subMeshs # <<>>
          /\ pFace' = LastSubMesh(object')
     /\ \A tokens \in FaceLines :
          (pFace # NullPtr /\ ObjLineF(tokens) /\ pc' = "AnalyzeObj") =>
            /\ pFace.kind = "faces"
            /\ pFace = LastSubMesh(object)
            /\ LET old == SubMeshesOf(object.meshes)
                   new == SubMeshesOf(object'.meshes)
                   tri == Triangulate(ParseFaceLine(tokens, object).result,
                                      0, <<>>).faces
               IN /\ Len(new) = Len(old)
                  /\ \A k \in 1..(Len(old) - 1) : new[k] = old[k]
                  /\ new[Len(old)].faces = old[Len(old)].faces \o tri]_vars

\* C17: a texcoord or normal component that is present in the token of a
\* corner is never stored as the sentinel -1 of an absent component, for
\* which MakeVertex substitutes the default.
C17_PresentNeverSentinel ==
  [][\A tokens \in FaceLines :
       (/\ Len(tokens) >= 3
        /\ pFace.kind = "faces"
        /\ ObjLineF(tokens)
        /\ pc' = "AnalyzeObj") =>
         \A j \in 1..3 :
           LET c == TargetAfter[Len(Target) + 1][j] IN
           /\ tokens[j].vt # <<>> => c.vt # -1
           /\ tokens[j].vn # <<>> => c.vn # -1]_vars

\* C18: a face line of fewer than three corners, read with a face target
\* set, stores no triangle and parsing goes on: the loop over the corners
\* reads none past the end of the corner list.
C18_ShortFaceLineAppendsNothing ==
  [][\A tokens \in FaceLines :
       (Len(tokens) < 3 /\ pFace.kind = "faces" /\ ObjLineF(tokens)) =>
         /\ object' = object
         /\ pc' = "AnalyzeObj"]_vars

\* C19: whenever a usemtl line is read, object.meshes holds a mesh to take
\* the new sub mesh.
C19_UsemtlHasMesh ==
  [][\A material \in ObjMtlNames :
       ObjLineUsemtl(material) => object.meshes # <<>>]_vars

\* ========================================================================
\* Properties of CreateBufferData (SpecBuf)
\* ========================================================================
SubMeshes == SubMeshesOf(object.meshes)

\* CreateBufferData returned (after it, wmain calls GenerateTangents)
Consolidated == pc = "GenerateTangents"

\* The indices the index buffer holds before its position i
IndicesBefore(i) == {indexBuffer[j] : j \in 1..(i - 1)}

\* C1: once CreateBufferData returned, the index buffer has one entry per
\* corner of the scene, two corners have the same entry exactly when they
\* are the same (v, vt, vn) triple, the entries are the vertex positions
\* 0..len(vertexBuffer)-1, and they are handed out in first-seen order: a
\* corner not seen before gets the number of distinct triples before it.
C1_KeyIndexBijection ==
  Consolidated =>
    /\ Len(indexBuffer) = Len(StoredCorners)
    /\ \A i, j \in 1..Len(indexBuffer) :
         (StoredCorners[i] = StoredCorners[j])
           <=> (indexBuffer[i] = indexBuffer[j])
    /\ {indexBuffer[i] : i \in 1..Len(indexBuffer)}
         = 0..(Len(vertexBuffer) - 1)
    /\ \A i \in 1..Len(indexBuffer) :
         indexBuffer[i] \notin IndicesBefore(i) =>
           indexBuffer[i] = Cardinality(IndicesBefore(i))

\* Two sub meshes with faces: a triple of the first used again in the
\* second, and triples that differ in the normal index alone
C1_Witness ==
  /\ Consolidated
  /\ Len(SubMeshes) = 2
  /\ SubMeshes[1].faces # <<>>
  /\ SubMeshes[2].faces # <<>>
  /\ Len(vertexBuffer) = 3
  /\ indexBuffer[4] = indexBuffer[1]
  /\ \E i, j \in 1..Len(StoredCorners) :
       /\ StoredCorners[i].v = StoredCorners[j].v
       /\ StoredCorners[i].vt = StoredCorners[j].vt
       /\ StoredCorners[i].vn # StoredCorners[j].vn

\* The number of faces of the first n sub meshes
FacesBefore(n) == Len(FacesOf(SubSeq(SubMeshes, 1, n)))

\* C9: once CreateBufferData returned there is one MeshInfo per sub mesh,
\* in the order of the sub meshes, with primCount the number of its faces
\* and startIndex three times the number of faces of the sub meshes before
\* it, so that startIndex + primCount*3 <= len(indexBuffer).
C9_MeshRecords ==
  Consolidated =>
    /\ Len(meshInfo) = Len(SubMeshes)
    /\ \A k \in 1..Len(meshInfo) :
         /\ meshInfo[k].primCount = Len(SubMeshes[k].faces)
         /\ meshInfo[k].startIndex = 3 * FacesBefore(k - 1)
         /\ meshInfo[k].startIndex + meshInfo[k].primCount * 3
              <= Len(indexBuffer)

\* A sub mesh without faces after a sub mesh of two faces
C9_Witness ==
  /\ Consolidated
  /\ Len(meshInfo) = 2
  /\ meshInfo[1].primCount = 2
  /\ meshInfo[2].primCount = 0
  /\ meshInfo[2].startIndex = 6

\* C10: once CreateBufferData returned, every MeshInfo holds the index the
\* material file registered for the material name of its sub mesh, and that
\* index is below the number of materials; when the name of a sub mesh is
\* not registered CreateBufferData throws "Material not found" and leaves
\* no MeshInfo for that sub mesh.
C10_MaterialIndex ==
  /\ Consolidated =>
       /\ Len(meshInfo) = Len(SubMeshes)
       /\ \A k \in 1..Len(meshInfo) :
            /\ SubMeshes[k].material \in DOMAIN materialIndexMap
            /\ meshInfo[k].materialIndex
                 = materialIndexMap[SubMeshes[k].material]
            /\ meshInfo[k].materialIndex < Len(materials)
  /\ (pc = "terminate" /\ err = "Material not found: ") =>
       /\ Len(meshInfo) < Len(SubMeshes)
       /\ SubMeshes[Len(meshInfo) + 1].material \notin DOMAIN materialIndexMap

\* A material name declared twice, used by a sub mesh
C10_Witness ==
  /\ Consolidated
  /\ Len(materials) = 2
  /\ DOMAIN materialIndexMap = {"a"}
  /\ Len(meshInfo) >= 1
  /\ meshInfo[1].materialIndex = 1

\* ========================================================================
\* Properties of AnalyzeMtl and RegisterTexture (SpecMtl)
\* ========================================================================
\* The registration of the file named by a map line fails: the file is not
\* found, or it is not registered yet and the codec fails to load or to
\* convert it
RegistrationFails(tokens, type, exists, loads, converts) ==
  /\ materials # <<>>
  /\ ExtractTextureFilename(tokens) # <<>>
  /\ \/ ~exists
     \/ /\ <<ExtractTextureFilename(tokens), type>> \notin DOMAIN textureIndexMap
        /\ ~loads \/ ~converts

\* C5: a map_Kd or map_Bump line whose texture registration fails (file not
\* found, or load or conversion failure of the codec) ends the conversion
\* with a failure.
C5_FailedRegistrationFails ==
  [][\A tokens \in MtlMapArgs, exists, loads, converts \in BOOLEAN :
       /\ (/\ RegistrationFails(tokens, BaseColor, exists, loads, converts)
           /\ MtlLineMapKd(tokens, exists, loads, converts)) => Failed'
       /\ (/\ RegistrationFails(tokens, Normal, exists, loads, converts)
           /\ MtlLineMapBump(tokens, exists, loads, converts)) => Failed'
    ]_vars

\* A map line that calls RegisterTexture and gets an index from it
Registers(tokens, type, exists, loads, converts) ==
  /\ materials # <<>>
  /\ ExtractTextureFilename(tokens) # <<>>
  /\ exists
  /\ \/ <<ExtractTextureFilename(tokens), type>> \in DOMAIN textureIndexMap
     \/ loads /\ converts

\* What a successful registration of (path, type) for the slot of the last
\* material does: a pair registered before gives its index again and adds
\* nothing; a new pair is appended and gets the length of the table
RegistrationEffect(path, type, slot) ==
  LET key == <<path, type>>
      n == Len(textures)
  IN IF key \in DOMAIN textureIndexMap
     THEN /\ materials'[Len(materials)][slot] = textureIndexMap[key]
          /\ textures' = textures
          /\ textureIndexMap' = textureIndexMap
     ELSE /\ materials'[Len(materials)][slot] = n
          /\ Len(textures') = n + 1
          /\ SubSeq(textures', 1, n) = textures
          /\ textures'[n + 1].type = type
          /\ DOMAIN textureIndexMap' = DOMAIN textureIndexMap \cup {key}
          /\ textureIndexMap'[key] = n
          /\ \A k \in DOMAIN textureIndexMap :
               textureIndexMap'[k] = textureIndexMap[k]

\* C14: a map line whose registration succeeds gets, for a (path, type)
\* pair registered before, the index of that registration and adds no
\* texture, and for a new pair the length of the texture table, where the
\* new entry goes; within one material file the pairs registered and the
\* entries of the table correspond one to one, so the same path with two
\* types has two entries.
C14_RegisterIdempotent ==
  [][/\ \A tokens \in MtlMapArgs, exists, loads, converts \in BOOLEAN :
          /\ (/\ Registers(tokens, BaseColor, exists, loads, converts)
              /\ MtlLineMapKd(tokens, exists, loads, converts)) =>
                RegistrationEffect(ExtractTextureFilename(tokens), BaseColor,
                                   "baseColorTexIndex")
          /\ (/\ Registers(tokens, Normal, exists, loads, converts)
              /\ MtlLineMapBump(tokens, exists, loads, converts)) =>
                RegistrationEffect(ExtractTextureFilename(tokens), Normal,
                                   "normalTexIndex")
     /\ pc' = "AnalyzeMtl" =>
          /\ Cardinality(DOMAIN textureIndexMap') = Len(textures')
          /\ {textureIndexMap'[k] : k \in DOMAIN textureIndexMap'}
               = 0..(Len(textures') - 1)
          /\ \A k \in DOMAIN textureIndexMap' :
               textures'[textureIndexMap'[k] + 1].type = k[2]]_vars

\* t.png registered with both types and u.png with one, and the second
\* material given the index 0 of the first registration again
C14_Witness ==
  /\ pc = "AnalyzeMtl"
  /\ Len(textures) = 3
  /\ {<<<<"t.png">>, BaseColor>>, <<<<"t.png">>, Normal>>}
       \subseteq DOMAIN textureIndexMap
  /\ Len(materials) = 2
  /\ materials[2].baseColorTexIndex = 0
  /\ materials[1].baseColorTexIndex = 0

\* ========================================================================
\* Properties of the attribute lines of AnalyzeMtl (SpecAttr)
\* ========================================================================
\* A Kd, Ks, Ns, Ke, map_Kd or map_Bump line is read
AttributeLine ==
  \/ \E color \in ColorVals :
       MtlLineKd(color) \/ MtlLineKs(color) \/ MtlLineKe(color)
  \/ \E Ns \in NsVals : MtlLineNs(Ns)
  \/ \E tokens \in AttrMapArgs, exists, loads, converts \in BOOLEAN :
       \/ MtlLineMapKd(tokens, exists, loads, converts)
       \/ MtlLineMapBump(tokens, exists, loads, converts)

\* C20: an attribute line changes the last material only; read before the
\* first newmtl line it leaves the material table empty and parsing goes
\* on with the next line, without an access to the last element of the
\* empty table.
C20_AttributeLinesNeedMaterial ==
  [][AttributeLine =>
       IF materials = <<>>
       THEN materials' = <<>> /\ pc' = "AnalyzeMtl"
       ELSE /\ Len(materials') = Len(materials)
            /\ \A k \in 1..(Len(materials) - 1) :
                 materials'[k] = materials[k]]_vars

\* ========================================================================
\* Properties of wmain (Spec)
\* ========================================================================
\* The stages of wmain in the order of their calls
StageOrder ==
  <<"OpenObj", "AnalyzeObj", "GetMaterialPath", "OpenMtl", "AnalyzeMtl",
    "CreateBufferData", "GenerateTangents", "OutputImdl", "return0">>
Rank(p) == CHOOSE i \in 1..Len(StageOrder) : StageOrder[i] = p

\* What the state shows of stages that succeeded: a material file was named,
\* every sub mesh found its material and got its MeshInfo, every corner its
\* index, and every vertex the handedness sign of its tangent
StagesSucceeded ==
  /\ object.mtllib # ""
  /\ \A k \in 1..Len(SubMeshes) :
       SubMeshes[k].material \in DOMAIN materialIndexMap
  /\ Len(meshInfo) = Len(SubMeshes)
  /\ Len(indexBuffer) = Len(StoredCorners)
  /\ \A k \in 1..Len(vertexBuffer) : vertexBuffer[k].tangent[4] \in {-1, 1}

\* C6: the conversion is all or nothing.  No step is taken after a failure;
\* the stages run in the order of wmain, each after the one before it
\* returned without failure; the output file is written in the one step of
\* OutputImdl that ends the run with success, after all stages before it
\* succeeded; a run that failed has no output.
C6_AllOrNothing ==
  [][/\ ~Failed
     /\ pc # "return0"
     /\ ~Failed' => Rank(pc') \in {Rank(pc), Rank(pc) + 1}
     /\ Failed' => output' = <<>>
     /\ output' # output =>
          /\ output = <<>>
          /\ pc = "OutputImdl"
          /\ pc' = "return0"
          /\ StagesSucceeded']_vars

\* A run that ended with success and wrote the container of a scene with a
\* face
C6_Witness ==
  /\ pc = "return0"
  /\ output # <<>>
  /\ Len(indexBuffer) >= 3
  /\ Len(materials) >= 1

\* ========================================================================
\* Properties of ReadChunk and WriteChunk (SpecChunk)
\* ========================================================================
\* The bytes the stream has left to read
Available == Len(ifs.bytes) - ifs.pos

\* The stream ends before the eight bytes of the next header, or before the
\* payload bytes that header declares
EndsEarly ==
  \/ Available < 8
  \/ Available - 8 < U32(ifs.bytes, ifs.pos + 5)

\* C11: ReadChunk on a stream that ends before the header or before the
\* declared payload returns false and leaves the caller's header and buffer
\* as they were, with nothing of the chunk it could not read.
C11_FailedReadLeavesNothing ==
  [][(EndsEarly /\ ChunkRead) =>
       /\ ret' = "false"
       /\ header' = header
       /\ buffer' = buffer]_vars

\* The offset in the file of the end of the k-th chunk written
RECURSIVE ChunkEnd(_)
ChunkEnd(k) ==
  IF k = 0 THEN 0 ELSE ChunkEnd(k - 1) + 8 + Len(written[k].data)

\* C12: read back from the whole file, the k-th ReadChunk returns true and
\* gives the type of the k-th chunk written, a size that is the length of
\* its payload, and its payload, and leaves the stream at the next chunk.
C12_RoundTrip ==
  [][\A k \in 1..Len(written) :
       (/\ ifs.bytes = output
        /\ ifs.pos = ChunkEnd(k - 1)
        /\ ChunkRead) =>
         /\ ret' = "true"
         /\ HeaderType(header') = written[k].type
         /\ HeaderSize(header') = Len(written[k].data)
         /\ buffer' = written[k].data
         /\ ifs'.pos = ChunkEnd(k)]_vars

\* Three chunks read back, the last with an empty payload after one of two
\* bytes
C12_Witness ==
  /\ ret = "true"
  /\ Len(written) = 3
  /\ ifs.bytes = output
  /\ ifs.pos = Len(output)
  /\ written[2].data = <<1, 2>>
  /\ written[3].data = <<>>
  /\ buffer = <<>>
  /\ HeaderType(header) = written[3].type

\* ========================================================================
\* Properties of OutputImdl (Spec)
\* ========================================================================
\* The chunks a file holds from offset pos on: type, size and payload of
\* each; a chunk the file ends in is given the type -1
RECURSIVE ChunksFrom(_, _)
ChunksFrom(bytes, pos) ==
  IF pos = Len(bytes) THEN <<>>
  ELSE IF pos + 8 > Len(bytes) \/ pos + 8 + U32(bytes, pos + 5) > Len(bytes)
  THEN <<[type |-> -1, size |-> 0, data |-> <<>>]>>
  ELSE LET size == U32(bytes, pos + 5) IN
       <<[type |-> U32(bytes, pos + 1), size |-> size,
          data |-> SubSeq(bytes, pos + 9, pos + 8 + size)]>>
       \o ChunksFrom(bytes, pos + 8 + size)

\* C13: the output file is the header of magic 'IMDL' (0x494D444C),
\* version 1 and chunkCount 5, followed by exactly five chunks, of the types
\* TEXTURE, MATERIAL, MESH, VERTEX, INDEX in this order, each with a size
\* field that is the length of its payload, the payloads being the five
\* record sets, empty or not.
C13_ContainerLayout ==
  output # <<>> =>
    /\ Len(output) >= 12
    /\ U32(output, 1) = 1229800524
    /\ U32(output, 5) = 1
    /\ U32(output, 9) = 5
    /\ LET chunks == ChunksFrom(output, 12) IN
       /\ [k \in 1..Len(chunks) |-> chunks[k].type]
            = <<CHUNK_TEXTURE, CHUNK_MATERIAL, CHUNK_MESH, CHUNK_VERTEX,
                CHUNK_INDEX>>
       /\ \A k \in 1..Len(chunks) : chunks[k].size = Len(chunks[k].data)
       /\ chunks[1].data = BuildTextureChunk(textures)
       /\ chunks[2].data = BuildMaterialChunk(materials)
       /\ chunks[3].data = BuildMeshChunk(meshInfo)
       /\ chunks[4].data = BuildVertexChunk(vertexBuffer)
       /\ chunks[5].data = BuildIndexChunk(indexBuffer)

\* A container with textures and materials and without meshes, vertices
\* and indices
C13_Witness ==
  /\ output # <<>>
  /\ textures # <<>>
  /\ materials # <<>>
  /\ meshInfo = <<>>
  /\ vertexBuffer = <<>>
  /\ indexBuffer = <<>>

\* ========================================================================
\* Properties of GenerateTangents (SpecTan)
\* ========================================================================
\* The triangles of the index buffer, numbered from 0, and the vertices
\* (positions in vertexBuffer) of triangle n
TriangleCount == Len(indexBuffer) \div 3
Corner(n, j) == indexBuffer[3 * n + j] + 1
VerticesOfTriangle(n) == {Corner(n, 1), Corner(n, 2), Corner(n, 3)}

\* The determinant of the texcoord differences of triangle n, and the
\* tangent and bitangent of the triangle itself
UvDenom(n) ==
  LET uv0 == vertexBuffer[Corner(n, 1)].texcoord
      uv1 == vertexBuffer[Corner(n, 2)].texcoord
      uv2 == vertexBuffer[Corner(n, 3)].texcoord
  IN (uv1[1] - uv0[1]) * (uv2[2] - uv0[2])
       - (uv2[1] - uv0[1]) * (uv1[2] - uv0[2])

OwnTangent(n) ==
  LET v0 == vertexBuffer[Corner(n, 1)]
      v1 == vertexBuffer[Corner(n, 2)]
      v2 == vertexBuffer[Corner(n, 3)]
      e1 == Sub3(v1.position, v0.position)
      e2 == Sub3(v2.position, v0.position)
  IN Div3(Sub3(Scale3(e1, v2.texcoord[2] - v0.texcoord[2]),
               Scale3(e2, v1.texcoord[2] - v0.texcoord[2])), UvDenom(n))

OwnBitangent(n) ==
  LET v0 == vertexBuffer[Corner(n, 1)]
      v1 == vertexBuffer[Corner(n, 2)]
      v2 == vertexBuffer[Corner(n, 3)]
      e1 == Sub3(v1.position, v0.position)
      e2 == Sub3(v2.position, v0.position)
  IN Div3(Sub3(Scale3(e2, v1.texcoord[1] - v0.texcoord[1]),
               Scale3(e1, v2.texcoord[1] - v0.texcoord[1])), UvDenom(n))

\* Triangle n is flat: n0.n1 and n1.n2 are 1 for the unit normals of the
\* vertex buffer
FlatTriangle(n) ==
  /\ Dot3(vertexBuffer[Corner(n, 1)].normal,
          vertexBuffer[Corner(n, 2)].normal) >= 1
  /\ Dot3(vertexBuffer[Corner(n, 2)].normal,
          vertexBuffer[Corner(n, 3)].normal) >= 1

\* The three vertices of triangle n have one and the same tangent, the
\* one made of the tangent and bitangent of the triangle alone
HasOwnTangent(n) ==
  /\ \A k \in VerticesOfTriangle(n) :
       vertexBuffer[k].tangent
         = TangentOf(vertexBuffer[k], OwnTangent(n), OwnBitangent(n))
  /\ \A k, l \in VerticesOfTriangle(n) :
       vertexBuffer[k].tangent = vertexBuffer[l].tangent

\* A triangle later in the index buffer, with non-degenerate texcoords,
\* has a vertex of triangle n
TouchedLater(n) ==
  \E m \in (n + 1)..(TriangleCount - 1) :
    /\ UvDenom(m) # 0
    /\ VerticesOfTriangle(m) \cap VerticesOfTriangle(n) # {}

\* GenerateTangents returned (after it, wmain calls OutputImdl)
TangentsDone == pc = "OutputImdl"

\* C15, as stated: every flat triangle with non-degenerate texcoords has
\* at its three vertices the tangent of the triangle itself, whatever
\* triangles share its vertices and wherever they are in the index buffer.
C15_FlatTangentWhateverFollows ==
  TangentsDone =>
    \A n \in 0..(TriangleCount - 1) :
      (UvDenom(n) # 0 /\ FlatTriangle(n)) => HasOwnTangent(n)

\* C15, amended: a flat triangle with non-degenerate texcoords has at its
\* three vertices the tangent of the triangle itself, whatever was
\* accumulated there by the triangles before it, when no triangle with
\* non-degenerate texcoords that comes later in the index buffer has one of
\* its vertices.
C15_FlatTangentOverwrites ==
  TangentsDone =>
    \A n \in 0..(TriangleCount - 1) :
      (UvDenom(n) # 0 /\ FlatTriangle(n) /\ ~TouchedLater(n)) =>
        HasOwnTangent(n)

\* A flat triangle that comes second and shares a vertex with a first
\* triangle of another tangent
C15_Witness ==
  /\ TangentsDone
  /\ TriangleCount = 2
  /\ UvDenom(0) # 0
  /\ UvDenom(1) # 0
  /\ FlatTriangle(1)
  /\ VerticesOfTriangle(0) \cap VerticesOfTriangle(1) # {}
  /\ Normalize(OwnTangent(0)) # Normalize(OwnTangent(1))
  /\ HasOwnTangent(1)

====
